---------------------------- MODULE Spec2Model ----------------------------
(***************************************************************************)
(* Model of scripts/generate_icons.py: open one image, centre-crop it to   *)
(* a square, resize the crop to 16, 48 and 128 pixels and save each as a   *)
(* PNG, all inside one try/except that prints "Error: ...".                *)
(*                                                                         *)
(* A Python float that is an integer or an integer plus one half (all the  *)
(* script ever computes with "/ 2") is the record [whole, half], standing  *)
(* for whole + half * 0.5.                                                 *)
(***************************************************************************)
EXTENDS Integers, Sequences, FiniteSets

\* Bounds of the model: input images are 1..MaxDim pixels on each axis (plus
\* the named sizes of ExtraDims), and the script is run at most MaxRuns times
\* in a row over the same directory.
MaxDim == 5
MaxRuns == 2

\* generate_icons.py:5-6
input_path == "public/Whisk_5e6bbe242133923a5d44834e6368ed79dr.jpeg"
output_dir == "public"

\* generate_icons.py:9
sizes == <<16, 48, 128>>

Sizes == {sizes[i] : i \in 1..Len(sizes)}

\* Input sizes the runs are tried on.
ExtraDims == {<<400, 300>>, <<128, 128>>}
Dims == ((1..MaxDim) \X (1..MaxDim)) \cup ExtraDims

----------------------------------------------------------------------------
(* State *)

VARIABLES
    inputFile,    \* the file at input_path
    disk,         \* the files of output_dir the script may write, by path
    pc,           \* the line the run is at
    status,       \* "running", "exit0" (normal end) or "traceback"
    console,      \* the lines printed so far in this run
    img,          \* line 12
    width, height, new_size,      \* lines 14-15
    left, top, right, bottom,     \* lines 17-20
    img_cropped,  \* line 22
    i,            \* position of the loop of line 24 in sizes
    img_resized,  \* line 26
    \* Bookkeeping of the run, not read by the script:
    run,          \* which run this is
    disk0,        \* disk as it was when this run began
    written,      \* sizes whose save returned in this run, in order
    crops,        \* calls of crop in this run
    cropped0,     \* img_cropped as crop returned it
    failedAt,     \* the step that raised in this run, "" if none
    prev          \* what the run before this one cropped and wrote

locals == <<pc, status, console, img, width, height, new_size,
            left, top, right, bottom, img_cropped, i, img_resized>>
book == <<run, disk0, written, crops, cropped0, failedAt, prev>>
vars == <<inputFile, disk, locals, book>>

----------------------------------------------------------------------------
(* Floats and the imaging library's rounding *)

\* n / 2 in Python 3 (true division) for an integer n >= 0.
TrueDiv2(n) == [whole |-> n \div 2, half |-> n % 2]

\* Python 3's built-in round(): to the nearest integer, a half to the even
\* neighbour.  Image.crop passes every box coordinate through int(round(.)).
round(x) ==
    IF x.half = 0 THEN x.whole
    ELSE IF x.whole % 2 = 0 THEN x.whole ELSE x.whole + 1

\* min(width, height), line 15
Min(a, b) == IF a <= b THEN a ELSE b

----------------------------------------------------------------------------
(* Files *)

\* f"icon{size}.png", line 29
OutputFilename(size) == <<"icon", size, ".png">>

\* os.path.join(output_dir, output_filename), line 30
OutputPath(size) == <<output_dir>> \o OutputFilename(size)

Paths == {OutputPath(s) : s \in Sizes}

Absent == [kind |-> "absent", size |-> <<0, 0>>]
\* A file that was there before the first run; its content is not the script's.
Old == [kind |-> "old", size |-> <<0, 0>>]
\* What a save that failed part-way leaves of a file it had already opened.
Partial == [kind |-> "partial", size |-> <<0, 0>>]
Png(im) == [kind |-> "png", size |-> im.size]

\* The input file: a decodable image of some size, one whose header reads but
\* whose pixel data is cut short (open succeeds, the first load fails), one
\* that is no image, or no file at all.
Inputs ==
    [kind : {"image", "truncated"}, size : Dims]
        \cup [kind : {"missing", "undecodable"}, size : {<<0, 0>>}]

----------------------------------------------------------------------------
(* In-memory images *)

NoImage == [name |-> "none", size |-> <<0, 0>>, box |-> <<0, 0, 0, 0>>,
            from |-> "none", handle |-> "none"]

\* An open that prefers the largest icon of an earlier run as its source.
Opened_reuse(f) ==
    LET big == sizes[Len(sizes)] IN
    IF disk[OutputPath(big)].kind = "png"
    THEN [name |-> "img", size |-> <<big, big>>, box |-> <<0, 0, big, big>>,
          from |-> input_path, handle |-> "open"]
    ELSE [name |-> "img", size |-> f.size,
          box |-> <<0, 0, f.size[1], f.size[2]>>,
          from |-> input_path, handle |-> "open"]

\* Image.open(input_path), line 12: the decoded header of the input file, with
\* the file handle it holds.
Opened(f) ==
    [name |-> "img", size |-> f.size,
     box |-> <<0, 0, f.size[1], f.size[2]>>,
     from |-> input_path, handle |-> "open"]

\* A context manager exit that forgets to close.
WithExit_leak(im) == im

\* Leaving the "with Image.open(...) as img" block of line 12, by falling off
\* its end or by an exception passing through: Image.__exit__ closes the file.
WithExit(im) ==
    IF im.handle = "open" THEN [im EXCEPT !.handle = "closed"] ELSE im

\* A right edge counted inclusively, one pixel short.
Right_inclusive(w, n) == TrueDiv2(w + n - 1)

\* Lines 17-20 on a width w, a height h and the square's edge n.
Left(w, n) == TrueDiv2(w - n)
Top(h, n) == TrueDiv2(h - n)
Right(w, n) == TrueDiv2(w + n)
Bottom(h, n) == TrueDiv2(h + n)

\* The integer box Image.crop cuts for the float box it is given.
CropBox(l, t, r, b) == <<round(l), round(t), round(r), round(b)>>

\* im.crop((l, t, r, b)), line 22: a new image of the rounded box's size.
Crop(im, l, t, r, b) ==
    LET bx == CropBox(l, t, r, b) IN
    [name |-> "img_cropped", size |-> <<bx[3] - bx[1], bx[4] - bx[2]>>,
     box |-> bx, from |-> im.name, handle |-> "none"]

\* im.resize((size, size), LANCZOS), line 26: a new image of the asked size.
Resize(im, size) ==
    [name |-> "img_resized", size |-> <<size, size>>,
     box |-> <<0, 0, size, size>>, from |-> im.name, handle |-> "none"]

----------------------------------------------------------------------------
(* Initial state *)

Zero == TrueDiv2(0)

GeneratedLine(size) == [tag |-> "Generated", path |-> OutputPath(size)]
ErrorLine == [tag |-> "Error", path |-> <<>>]

NoPrev == [ran |-> FALSE, cropped |-> NoImage, wrote |-> {}, failedAt |-> ""]

\* A fresh interpreter at line 11.
FreshLocals ==
    /\ pc = "open"
    /\ status = "running"
    /\ console = <<>>
    /\ img = NoImage
    /\ width = 0 /\ height = 0 /\ new_size = 0
    /\ left = Zero /\ top = Zero /\ right = Zero /\ bottom = Zero
    /\ img_cropped = NoImage
    /\ i = 1
    /\ img_resized = NoImage

Init ==
    /\ inputFile \in Inputs
    /\ disk \in [Paths -> {Absent, Old}]
    /\ FreshLocals
    /\ run = 1
    /\ disk0 = disk
    /\ written = <<>>
    /\ crops = 0
    /\ cropped0 = NoImage
    /\ failedAt = ""
    /\ prev = NoPrev

----------------------------------------------------------------------------
(* The error boundary, lines 11 and 34-35 *)

\* A handler that prints and then re-raises.
ExitAfterExcept_reraise == "traceback"

\* How the process ends once "except Exception" has printed: the handler
\* returns, the module body is over, the interpreter exits normally.
ExitAfterExcept == "exit0"

\* A handler that reports the error twice.
ExceptPrint_twice(c) == Append(Append(c, ErrorLine), ErrorLine)

\* print(f"Error: {e}"), line 35
ExceptPrint(c) == Append(c, ErrorLine)

\* A handler that cleans the icons out of the output directory.
DiskAfterExcept_rollback(d) == [p \in DOMAIN d |-> Absent]

\* The handler of lines 34-35 touches no file.
DiskAfterExcept(d) == d

\* An error boundary inside the loop: a size that fails is reported and the
\* loop goes on with the next one.
Raise_continue(step, d) ==
    /\ console' = ExceptPrint(console)
    /\ disk' = DiskAfterExcept(d)
    /\ failedAt' = step
    /\ IF step \in {"resize", "save"} /\ i < Len(sizes)
          THEN /\ i' = i + 1
               /\ pc' = "resize"
               /\ UNCHANGED <<img, status>>
          ELSE /\ img' = WithExit(img)
               /\ status' = ExitAfterExcept
               /\ pc' = "done"
               /\ UNCHANGED i
    /\ UNCHANGED <<inputFile, width, height, new_size, left, top, right,
                   bottom, img_cropped, img_resized>>
    /\ UNCHANGED <<run, disk0, written, crops, cropped0, prev>>

\* An exception raised at `step` inside the with block (or by Image.open
\* itself, when img is still unbound): the with block is left, closing the
\* handle, then the handler prints and the script ends.  d is the disk as the
\* raising call left it.
Raise(step, d) ==
    /\ img' = WithExit(img)
    /\ console' = ExceptPrint(console)
    /\ disk' = DiskAfterExcept(d)
    /\ status' = ExitAfterExcept
    /\ pc' = "done"
    /\ failedAt' = step
    /\ UNCHANGED <<inputFile, width, height, new_size, left, top, right,
                   bottom, img_cropped, i, img_resized>>
    /\ UNCHANGED <<run, disk0, written, crops, cropped0, prev>>

----------------------------------------------------------------------------
(* The steps of the script *)

\* Line 12, Image.open succeeds.
Open ==
    /\ pc = "open"
    /\ inputFile.kind \in {"image", "truncated"}
    /\ img' = Opened(inputFile)
    /\ pc' = "box"
    /\ UNCHANGED <<inputFile, disk, status, console, width, height, new_size,
                   left, top, right, bottom, img_cropped, i, img_resized>>
    /\ UNCHANGED book

\* Line 12, Image.open raises (FileNotFoundError, UnidentifiedImageError).
OpenFails ==
    /\ pc = "open"
    /\ inputFile.kind \in {"missing", "undecodable"}
    /\ Raise("open", disk)

\* Lines 14-20.
ComputeBox ==
    /\ pc = "box"
    /\ width' = img.size[1]
    /\ height' = img.size[2]
    /\ new_size' = Min(width', height')
    /\ left' = Left(width', new_size')
    /\ top' = Top(height', new_size')
    /\ right' = Right(width', new_size')
    /\ bottom' = Bottom(height', new_size')
    /\ pc' = "crop"
    /\ UNCHANGED <<inputFile, disk, status, console, img, img_cropped, i,
                   img_resized>>
    /\ UNCHANGED book

\* Line 22, crop returns.
CropStep ==
    /\ pc = "crop"
    /\ inputFile.kind = "image"
    /\ img_cropped' = Crop(img, left, top, right, bottom)
    /\ crops' = crops + 1
    /\ cropped0' = img_cropped'
    /\ pc' = "resize"
    /\ UNCHANGED <<inputFile, disk, status, console, img, width, height,
                   new_size, left, top, right, bottom, i, img_resized>>
    /\ UNCHANGED <<run, disk0, written, failedAt, prev>>

\* Line 22, crop raises: it loads the pixel data first, which a truncated
\* file does not have.
CropFails ==
    /\ pc = "crop"
    /\ inputFile.kind = "truncated"
    /\ Raise("crop", disk)

\* A loop that resizes what the iteration before it produced.
ResizeSource_chain == IF img_resized = NoImage THEN img_cropped ELSE img_resized

\* The image line 26 resizes.
ResizeSource == img_cropped

\* Line 26, resize returns.
ResizeStep ==
    /\ pc = "resize"
    /\ img_resized' = Resize(ResizeSource, sizes[i])
    /\ pc' = "save"
    /\ UNCHANGED <<inputFile, disk, status, console, img, width, height,
                   new_size, left, top, right, bottom, img_cropped, i>>
    /\ UNCHANGED book

\* Line 26, resize raises (MemoryError, or the library refusing the image).
ResizeFails ==
    /\ pc = "resize"
    /\ Raise("resize", disk)

\* A save that leaves a file that is already there alone.
Saved_keep(d, path, im) ==
    IF d[path].kind = "absent" THEN [d EXCEPT ![path] = Png(im)] ELSE d

\* im.save(path, "PNG") returning, line 31: the file holds the image, whatever
\* was there before.
Saved(d, path, im) == [d EXCEPT ![path] = Png(im)]

\* Lines 29-31, save returns.
SaveStep ==
    /\ pc = "save"
    /\ disk' = Saved(disk, OutputPath(sizes[i]), img_resized)
    /\ written' = Append(written, sizes[i])
    /\ pc' = "print"
    /\ UNCHANGED <<inputFile, status, console, img, width, height, new_size,
                   left, top, right, bottom, img_cropped, i, img_resized>>
    /\ UNCHANGED <<run, disk0, crops, cropped0, failedAt, prev>>

\* Lines 29-31, save raises (OSError): before touching the file, or after
\* opening it for writing, which leaves it cut short.
SaveFails ==
    /\ pc = "save"
    /\ \E d \in {disk, [disk EXCEPT ![OutputPath(sizes[i])] = Partial]} :
          Raise("save", d)

\* Line 32, then back to line 24 for the next size, or out of the loop.
PrintStep ==
    /\ pc = "print"
    /\ console' = Append(console, GeneratedLine(sizes[i]))
    /\ i' = i + 1
    /\ pc' = IF i < Len(sizes) THEN "resize" ELSE "exit"
    /\ UNCHANGED <<inputFile, disk, status, img, width, height, new_size,
                   left, top, right, bottom, img_cropped, img_resized>>
    /\ UNCHANGED book

\* The end of the with block of line 12 and of the script.
Exit ==
    /\ pc = "exit"
    /\ img' = WithExit(img)
    /\ status' = "exit0"
    /\ pc' = "done"
    /\ UNCHANGED <<inputFile, disk, console, width, height, new_size, left,
                   top, right, bottom, img_cropped, i, img_resized>>
    /\ UNCHANGED book

\* The script is started again over the same files: nothing of the process
\* survives, the directory does.
Rerun ==
    /\ pc = "done"
    /\ run < MaxRuns
    /\ pc' = "open"
    /\ status' = "running"
    /\ console' = <<>>
    /\ img' = NoImage
    /\ width' = 0 /\ height' = 0 /\ new_size' = 0
    /\ left' = Zero /\ top' = Zero /\ right' = Zero /\ bottom' = Zero
    /\ img_cropped' = NoImage
    /\ i' = 1
    /\ img_resized' = NoImage
    /\ run' = run + 1
    /\ disk0' = disk
    /\ written' = <<>>
    /\ crops' = 0
    /\ cropped0' = NoImage
    /\ failedAt' = ""
    /\ prev' = [ran |-> TRUE, cropped |-> img_cropped, failedAt |-> failedAt,
                wrote |-> {[path |-> OutputPath(written[k]),
                            size |-> disk[OutputPath(written[k])].size] :
                           k \in 1..Len(written)}]
    /\ UNCHANGED <<inputFile, disk>>

Next ==
    \/ Open
    \/ OpenFails
    \/ ComputeBox
    \/ CropStep
    \/ CropFails
    \/ ResizeStep
    \/ ResizeFails
    \/ SaveStep
    \/ SaveFails
    \/ PrintStep
    \/ Exit
    \/ Rerun

Spec == Init /\ [][Next]_vars

----------------------------------------------------------------------------
(* Properties *)

Count(q, tag) == Cardinality({k \in 1..Len(q) : q[k].tag = tag})
Icon(n) == [kind |-> "png", size |-> <<n, n>>]
Succeeded == pc = "done" /\ failedAt = ""
Failed == failedAt # ""
AfterCrop == pc \in {"resize", "save", "print", "exit"}

\* C1: when a run ends with no step having failed, icon16.png, icon48.png
\* and icon128.png are in the output directory and iconN.png holds an image of
\* exactly N x N pixels, whatever the size of the input.
C1_IconsExistWithTargetSize ==
    Succeeded =>
        \A n \in {16, 48, 128} :
            /\ <<"public", "icon", n, ".png">> \in DOMAIN disk
            /\ disk[<<"public", "icon", n, ".png">>] = Icon(n)

\* A run over a 4 x 3 input and three files that were there before has ended
\* without a failure.
C1_Witness ==
    /\ Succeeded
    /\ inputFile.size = <<4, 3>>
    /\ \A p \in Paths : disk0[p] = Old

\* C2: the crop box, once rounded by the library, is min(W, H) wide and
\* high, lies inside the image, has equal margins left and right and top and
\* bottom (within 1), and for 400 x 300 is (50, 0, 350, 300).
C2_CropIsCentredSquare ==
    AfterCrop =>
        LET bx == img_cropped.box
            W == img.size[1]
            H == img.size[2]
            m == IF W <= H THEN W ELSE H
            lm == bx[1]
            rm == W - bx[3]
            tm == bx[2]
            bm == H - bx[4]
        IN  /\ bx[3] - bx[1] = m
            /\ bx[4] - bx[2] = m
            /\ 0 <= bx[1] /\ bx[3] <= W
            /\ 0 <= bx[2] /\ bx[4] <= H
            /\ lm - rm \in {-1, 0, 1}
            /\ tm - bm \in {-1, 0, 1}
            /\ (W = 400 /\ H = 300 => bx = <<50, 0, 350, 300>>)

\* C3: for a square S x S input the crop changes nothing: the computed box is
\* (0, 0, S, S) and the cropped image has the size of the original.
C3_SquareCropIsWholeImage ==
    (pc \in {"crop", "resize", "save", "print", "exit"} /\ img.size[1] = img.size[2]) =>
        LET S == img.size[1] IN
        /\ <<left, top, right, bottom>>
             = <<[whole |-> 0, half |-> 0], [whole |-> 0, half |-> 0],
                 [whole |-> S, half |-> 0], [whole |-> S, half |-> 0]>>
        /\ (AfterCrop => /\ img_cropped.box = <<0, 0, S, S>>
                         /\ img_cropped.size = img.size)

\* A square input larger than one pixel has been cropped.
C3_Witness ==
    /\ pc = "resize"
    /\ img.size[1] = img.size[2]
    /\ img.size[1] > 1
    /\ img_cropped.box = <<0, 0, img.size[1], img.size[2]>>

\* C4: a failure of any step is caught at the one error boundary: exactly one
\* "Error:" line is printed, the run is over at once (nothing is retried), the
\* files written before the failure still hold their icons, no exception
\* leaves the script and the process ends as a successful run does.
C4_FailureCaughtOnce ==
    Failed =>
        /\ pc = "done"
        /\ status = "exit0"
        /\ Count(console, "Error") = 1
        /\ console[Len(console)] = ErrorLine
        /\ failedAt \in {"open", "crop", "resize", "save"}
        /\ i = Len(written) + 1
        /\ \A k \in 1..Len(written) : disk[OutputPath(written[k])] = Icon(written[k])

\* The save of icon128.png failed after icon16.png and icon48.png were
\* written.
C4_Witness ==
    /\ failedAt = "save"
    /\ written = <<16, 48>>
    /\ status = "exit0"

\* C5: when opening the input fails, the output directory is as it was before
\* the run, files that were already there included, no "Generated:" line is
\* printed and an "Error:" line is.
C5_MissingInputTouchesNothing ==
    failedAt = "open" =>
        /\ disk = disk0
        /\ Count(console, "Generated") = 0
        /\ Count(console, "Error") >= 1
        /\ written = <<>>

\* The input file is missing, the three icons were there before, and the run
\* is over.
C5_Witness ==
    /\ failedAt = "open"
    /\ inputFile.kind = "missing"
    /\ pc = "done"
    /\ \A p \in Paths : disk0[p] = Old

\* C6: the console holds "Generated:" lines and at most one "Error:" line; the
\* k-th line, when a "Generated:" line, names the k-th size's file, which this
\* run has written by then; there are never more "Generated:" lines than
\* files written; an "Error:" line is the last line.
C6_ConsoleFollowsWrites ==
    /\ \A k \in 1..Len(console) :
          \/ /\ console[k].tag = "Generated"
             /\ k <= Len(written)
             /\ console[k].path = OutputPath(written[k])
             /\ disk[console[k].path] = Icon(written[k])
          \/ /\ console[k] = ErrorLine
             /\ k = Len(console)
    /\ Count(console, "Generated") <= Len(written)
    /\ Count(console, "Error") <= 1

\* Two files were reported and then a step failed.
C6_Witness ==
    /\ Len(console) = 3
    /\ console[1].tag = "Generated"
    /\ console[2].tag = "Generated"
    /\ console[3].tag = "Error"

\* C7: the handle of the input is released on every exit path: when the run is
\* over, or its "Error:" line is printed, the handle is not open; a failed
\* open has acquired none, and every other end has closed the one it acquired.
C7_HandleReleased ==
    /\ (pc = "done" \/ Count(console, "Error") > 0) => img.handle # "open"
    /\ pc = "done" =>
          img.handle = (IF failedAt = "open" THEN "none" ELSE "closed")

\* A run that failed in a save has ended with its handle closed.
C7_Witness ==
    /\ pc = "done"
    /\ failedAt = "save"
    /\ img.handle = "closed"

\* C8: a run repeats the geometry of the run before it on the same input: the
\* same cropped image (box and size) when both got to crop, the same
\* dimensions for every file both wrote, and the same set of files and
\* dimensions when both ran to the end, whatever the earlier run left in the
\* output directory.
C8_SameGeometryEveryRun ==
    prev.ran =>
        /\ (img_cropped # NoImage /\ prev.cropped # NoImage)
              => img_cropped = prev.cropped
        /\ \A k \in 1..Len(written) : \A w \in prev.wrote :
              w.path = OutputPath(written[k]) => disk[w.path].size = w.size
        /\ (Succeeded /\ prev.failedAt = "")
              => prev.wrote = {[path |-> OutputPath(written[k]),
                                size |-> disk[OutputPath(written[k])].size] :
                               k \in 1..Len(written)}

\* A second run over a 5 x 2 input has ended like the first, which began with
\* an empty directory.
C8_Witness ==
    /\ prev.ran
    /\ Succeeded
    /\ prev.failedAt = ""
    /\ inputFile.size = <<5, 2>>
    /\ img_cropped.box = <<2, 0, 4, 2>>
    /\ Cardinality(prev.wrote) = 3
    /\ \A p \in Paths : disk0[p].kind = "png"

\* C9: crop is called exactly once in a run, on the opened image and before
\* any resize; every resized copy is made from the cropped image, and the
\* cropped image stays as crop returned it.
C9_CropOnceResizeFromCrop ==
    /\ pc \in {"open", "box", "crop"} => crops = 0 /\ img_resized = NoImage
    /\ AfterCrop =>
          /\ crops = 1
          /\ img_cropped = cropped0
          /\ img_cropped.from = "img"
          /\ img.handle = "open"
    /\ img_resized # NoImage =>
          /\ img_resized.from = "img_cropped"
          /\ crops = 1
          /\ img_cropped = cropped0
    /\ pc = "done" => crops = (IF failedAt \in {"open", "crop"} THEN 0 ELSE 1)

\* The third resize of a run has been made.
C9_Witness ==
    /\ pc = "save"
    /\ i = 3
    /\ img_resized.size = <<128, 128>>
    /\ img_resized.from = "img_cropped"

\* C10: the files written in a run are always a prefix of icon16.png,
\* icon48.png, icon128.png; a failure ends the run, so the later sizes' files
\* are as they were before the run and the failed size's file is not written
\* (a save that raised may have left it cut short).
C10_WrittenIsPrefix ==
    /\ Len(written) <= 3
    /\ written = SubSeq(<<16, 48, 128>>, 1, Len(written))
    /\ Failed => pc = "done"
    /\ \A k \in 1..Len(sizes) :
          k > Len(written) =>
              \/ disk[OutputPath(sizes[k])] = disk0[OutputPath(sizes[k])]
              \/ /\ k = Len(written) + 1
                 /\ failedAt = "save"
                 /\ disk[OutputPath(sizes[k])] = Partial

\* The resize for 48 failed after icon16.png was written.
C10_Witness ==
    /\ written = <<16>>
    /\ failedAt = "resize"
    /\ pc = "done"

====
